---- MODULE Spec2Model ----
(***************************************************************************)
(* A model of src/App/app.py: a Streamlit script that provisions one or    *)
(* two Instagram cookie files from secrets, serves a FastAPI endpoint      *)
(* /instagram-metadata from a background thread, and offers a manual test  *)
(* button.  yt-dlp is a black box: for a URL and a cookie file it returns  *)
(* an info record or raises an error with a free-form text.                *)
(*                                                                         *)
(* Python text is a TLA+ string; TLC evaluates Len, \o and SubSeq on       *)
(* strings, so lower(), strip() and the `in` substring test are computed   *)
(* character by character.                                                 *)
(***************************************************************************)
EXTENDS Integers, Sequences, FiniteSets, TLC

VARIABLES
    error_text,     \* the argument handed to the two text helpers
    retry_out,      \* result of should_retry_with_alt_cookie(error_text)
    friendly_out,   \* result of simplify_error_message(error_text)
    cookie_pool,    \* module global cookie_pool (a sequence of cookie files)
    request,        \* the inbound request body / the URL typed in the UI
    extract,        \* yt-dlp for this URL: cookie file -> info or raw error
    tz,             \* the server's local UTC offset, in seconds
    api_out,        \* what the HTTP endpoint did with the request
    ui_out,         \* what the manual test button did with the same URL
    secrets,        \* st.secrets: INSTAGRAM_COOKIE_MAIN / INSTAGRAM_COOKIE_ALT
    files,          \* which of the two cookie files exist on disk
    session_state,  \* st.session_state of every UI session
    threads,        \* number of run_api threads started in this process
    runs            \* outcome of every execution of the script, in order

textVars    == <<error_text, retry_out, friendly_out>>
serveVars   == <<cookie_pool, request, extract, tz, api_out, ui_out>>
startupVars == <<secrets, files, session_state, threads, runs>>
vars        == <<textVars, serveVars, startupVars>>

(***************************************************************************)
(* Python values.  One record shape for every value so that any two can be *)
(* compared: t is the type, n the number (or the length of a list/dict),   *)
(* s the text.                                                             *)
(***************************************************************************)
PyNone     == [t |-> "none", n |-> 0, s |-> ""]
PyInt(k)   == [t |-> "int",  n |-> k, s |-> ""]
PyStr(x)   == [t |-> "str",  n |-> 0, s |-> x]
PyBool(b)  == [t |-> "bool", n |-> IF b THEN 1 ELSE 0, s |-> ""]
PyList(k)  == [t |-> "list", n |-> k, s |-> ""]
PyDict(k)  == [t |-> "dict", n |-> k, s |-> ""]

\* bool(v): None, False, 0, "", [] and {} are falsy.
Truthy(v) ==
    CASE v.t = "none" -> FALSE
      [] v.t = "str"  -> v.s # ""
      [] OTHER        -> v.n # 0

\* `a or b`
PyOr(a, b) == IF Truthy(a) THEN a ELSE b

(***************************************************************************)
(* str.lower(), str.strip() and the substring test                         *)
(***************************************************************************)
UpperCase == "ABCDEFGHIJKLMNOPQRSTUVWXYZ"
LowerCase == "abcdefghijklmnopqrstuvwxyz"

LowerMap ==
    [c \in {SubSeq(UpperCase, i, i) : i \in 1..Len(UpperCase)} |->
        LET i == CHOOSE j \in 1..Len(UpperCase) : SubSeq(UpperCase, j, j) = c
        IN  SubSeq(LowerCase, i, i)]

LowerChar(c) == IF c \in DOMAIN LowerMap THEN LowerMap[c] ELSE c

\* str.lower(): every character lower-cased (by halves, to keep the
\* evaluation shallow).
RECURSIVE Lower(_)
Lower(s) ==
    IF Len(s) = 0 THEN ""
    ELSE IF Len(s) = 1 THEN LowerChar(s)
    ELSE LET h == Len(s) \div 2
         IN  Lower(SubSeq(s, 1, h)) \o Lower(SubSeq(s, h + 1, Len(s)))

Whitespace == {" ", "\t", "\n", "\r"}

RECURSIVE LStrip(_)
LStrip(s) ==
    IF Len(s) > 0 /\ SubSeq(s, 1, 1) \in Whitespace
    THEN LStrip(SubSeq(s, 2, Len(s)))
    ELSE s

RECURSIVE RStrip(_)
RStrip(s) ==
    IF Len(s) > 0 /\ SubSeq(s, Len(s), Len(s)) \in Whitespace
    THEN RStrip(SubSeq(s, 1, Len(s) - 1))
    ELSE s

Strip(s) == RStrip(LStrip(s))

\* `p in s`
Contains(p, s) ==
    \E i \in 1..(Len(s) - Len(p) + 1) : SubSeq(s, i, i + Len(p) - 1) = p

(***************************************************************************)
(* 2. should_retry_with_alt_cookie                                         *)
(***************************************************************************)
RetryPatterns ==
    { "http error 400",
      "instagram api is not granting access",
      "instagram sent an empty media response",
      "login session is not accepted",
      "post is private/restricted" }

\* Mutant: the error text is matched without being lower-cased.
should_retry_case_sensitive(text) ==
    LET lowered == PyOr(text, PyStr("")).s
    IN  \E p \in RetryPatterns : Contains(p, lowered)

should_retry_with_alt_cookie(text) ==
    LET lowered == Lower(PyOr(text, PyStr("")).s)
    IN  \E p \in RetryPatterns : Contains(p, lowered)

(***************************************************************************)
(* 3. simplify_error_message                                               *)
(* The source's "Unknown error" message holds an en dash (U+2013), which a *)
(* TLA+ string cannot; it is written "--" here.                            *)
(***************************************************************************)
MsgNoVideo  == "No downloadable video found (might be an image, carousel, or removed)."
MsgPrivate  == "Post is private/restricted or the login session is not accepted."
MsgExtract  == "Unable to extract data for this URL."
MsgBroken   == "yt-dlp Instagram extractor is currently broken for this URL."
MsgUnknown  == "Unknown error -- see server logs."

\* Mutant: the access-denial rule is tried before the no-video rule.
simplify_access_rule_first(raw) ==
    LET raw_lower == Lower(PyOr(raw, PyStr("")).s)
    IN  IF \/ Contains("instagram sent an empty media response", raw_lower)
           \/ Contains("instagram api is not granting access", raw_lower)
           \/ Contains("http error 400", raw_lower)
           \/ Contains("login session is not accepted", raw_lower)
        THEN MsgPrivate
        ELSE IF Contains("no video formats found", raw_lower)
        THEN MsgNoVideo
        ELSE IF Contains("unable to extract data", raw_lower)
        THEN MsgExtract
        ELSE IF Contains("functionality for this site has been marked as broken", raw_lower)
        THEN MsgBroken
        ELSE MsgUnknown

simplify_error_message(raw) ==
    LET raw_lower == Lower(PyOr(raw, PyStr("")).s)
    IN  IF Contains("no video formats found", raw_lower)
        THEN MsgNoVideo
        ELSE IF \/ Contains("instagram sent an empty media response", raw_lower)
                \/ Contains("instagram api is not granting access", raw_lower)
                \/ Contains("http error 400", raw_lower)
                \/ Contains("login session is not accepted", raw_lower)
        THEN MsgPrivate
        ELSE IF Contains("unable to extract data", raw_lower)
        THEN MsgExtract
        ELSE IF Contains("functionality for this site has been marked as broken", raw_lower)
        THEN MsgBroken
        ELSE MsgUnknown

(***************************************************************************)
(* The raw error texts the model draws from: up to MaxFrags fragments      *)
(* joined.  The fragments are yt-dlp style messages in several cases, near *)
(* misses, filler, and texts that look like the service's own messages.    *)
(***************************************************************************)
MaxFrags == 2

Fragments ==
    { "HTTP Error 400: Bad Request",
      "http error 400",
      "HTTP Error 404: Not Found",
      "Instagram API is not granting access",
      "instagram sent an empty media response",
      "Your LOGIN SESSION IS NOT ACCEPTED",
      "Post is private/restricted",
      "No video formats found",
      "NO VIDEO FORMATS FOUND",
      "Unable to extract data",
      "Functionality for this site has been marked as broken",
      "ERROR: [Instagram] ",
      "no video formats",
      MsgUnknown }

RECURSIVE Join(_)
Join(fs) == IF Len(fs) = 0 THEN "" ELSE Head(fs) \o Join(Tail(fs))

RawErrors ==
    { Join(fs) : fs \in UNION { [1..k -> Fragments] : k \in 0..MaxFrags } }

\* What a caller may pass as error_text: None or any raw error text.
ErrorTexts == {PyNone} \cup { PyStr(r) : r \in RawErrors }

Unset == [done |-> FALSE, v |-> PyNone]
Done(v) == [done |-> TRUE, v |-> v]

(***************************************************************************)
(* 1. Cookie files and the cookie pool                                     *)
(***************************************************************************)
COOKIE_FILE_MAIN == "/tmp/www.instagram.com_cookies_main.txt"
COOKIE_FILE_ALT  == "/tmp/www.instagram.com_cookies_alt.txt"

Digit(d) == SubSeq("0123456789", d + 1, d + 1)

\* The handlers read cookie_pool as given.  The pools they are run on are the
\* prefixes of main, alt, and further files (which the provisioning never
\* adds) up to MaxPool entries, the empty pool included.
MaxPool == 3

CookieAt(i) ==
    IF i = 1 THEN COOKIE_FILE_MAIN
    ELSE IF i = 2 THEN COOKIE_FILE_ALT
    ELSE "/tmp/www.instagram.com_cookies_" \o Digit(i) \o ".txt"

Pools == { [i \in 1..k |-> CookieAt(i)] : k \in 0..MaxPool }

Range(f) == { f[i] : i \in DOMAIN f }

(***************************************************************************)
(* 4. get_instagram_metadata                                               *)
(***************************************************************************)
NoInfo ==
    [view_count |-> PyNone, comment_count |-> PyNone, like_count |-> PyNone,
     timestamp |-> PyNone, uploader |-> PyNone, uploader_id |-> PyNone]

NoMeta ==
    [plays |-> PyNone, comments |-> PyNone, likes |-> PyNone,
     pub_date |-> PyNone, pub_time |-> PyNone, insta_id |-> PyNone]

\* What ydl.extract_info does for one cookie file: an info dict, or an
\* exception whose str() is err.
Extracted(info) == [ok |-> TRUE,  info |-> info,   err |-> ""]
Raises(text)    == [ok |-> FALSE, info |-> NoInfo, err |-> text]

Pad2(k) == Digit((k \div 10) % 10) \o Digit(k % 10)
Pad4(k) == Pad2(k \div 100) \o Pad2(k % 100)

\* datetime.fromtimestamp(ts) in the zone offset seconds east of UTC, as
\* <<year, month, day, hour, minute, second>> (proleptic Gregorian calendar).
fromtimestamp(ts, offset) ==
    LET t    == ts + offset
        secs == t % 86400
        z    == (t \div 86400) + 719468
        era  == z \div 146097
        doe  == z - era * 146097
        yoe  == (doe - (doe \div 1460) + (doe \div 36524) - (doe \div 146096)) \div 365
        doy  == doe - (365 * yoe + (yoe \div 4) - (yoe \div 100))
        mp   == (5 * doy + 2) \div 153
        d    == doy - ((153 * mp + 2) \div 5) + 1
        m    == IF mp < 10 THEN mp + 3 ELSE mp - 9
        y    == yoe + era * 400 + (IF m <= 2 THEN 1 ELSE 0)
    IN  <<y, m, d, secs \div 3600, (secs \div 60) % 60, secs % 60>>

\* strftime("%Y-%m-%d") and strftime("%H:%M:%S")
strftime_date(dt) == Pad4(dt[1]) \o "-" \o Pad2(dt[2]) \o "-" \o Pad2(dt[3])
strftime_time(dt) == Pad2(dt[4]) \o ":" \o Pad2(dt[5]) \o ":" \o Pad2(dt[6])

\* Returns the metadata dict, or re-raises whatever yt-dlp raised.
get_instagram_metadata(url, cookie_file, ydl, offset) ==
    LET r    == ydl[cookie_file]
        info == r.info
        ts   == info.timestamp
    IN  IF ~r.ok
        THEN [raised |-> TRUE, err |-> r.err, meta |-> NoMeta]
        ELSE [raised |-> FALSE, err |-> "",
              meta |->
                [plays    |-> info.view_count,
                 comments |-> info.comment_count,
                 likes    |-> info.like_count,
                 pub_date |-> IF Truthy(ts)
                              THEN PyStr(strftime_date(fromtimestamp(ts.n, offset)))
                              ELSE PyNone,
                 pub_time |-> IF Truthy(ts)
                              THEN PyStr(strftime_time(fromtimestamp(ts.n, offset)))
                              ELSE PyNone,
                 insta_id |-> PyOr(info.uploader, info.uploader_id)]]

(***************************************************************************)
(* 6. The endpoint POST /instagram-metadata                                *)
(***************************************************************************)
ErrorJson(msg) ==
    [plays |-> PyStr(""), comments |-> PyStr(""), likes |-> PyStr(""),
     pub_date |-> PyStr(""), pub_time |-> PyStr(""), insta_id |-> PyStr(""),
     error |-> PyStr(msg)]

\* A request body: whether request.json() parses it, the parsed top-level
\* value, and, for an object, whether it has a "link" key and that value.
NotJson       == [parsed |-> FALSE, top |-> PyNone, has_link |-> FALSE, link |-> PyNone]
JsonValue(v)  == [parsed |-> TRUE,  top |-> v, has_link |-> FALSE, link |-> PyNone]
JsonLink(v)   == [parsed |-> TRUE,  top |-> PyDict(1), has_link |-> TRUE, link |-> v]

\* The state of the credential loop: lines 204-206 before it starts.
LoopStart ==
    [success |-> FALSE, meta |-> NoMeta, last_error_raw |-> PyNone, attempts |-> <<>>]

\* Mutant: the fallback is not limited to the first entry (cookie_idx == 0
\* is not tested), so a failing alternate passes on to a third entry.
RECURSIVE ApiLoopAnyIndex(_, _, _, _, _, _)
ApiLoopAnyIndex(link, pool, ydl, offset, i, st) ==
    IF i > Len(pool) THEN st
    ELSE LET got   == get_instagram_metadata(link, pool[i], ydl, offset)
             tried == Append(st.attempts, pool[i])
         IN  IF ~got.raised
             THEN [st EXCEPT !.success = TRUE, !.meta = got.meta, !.attempts = tried]
             ELSE LET failed == [st EXCEPT !.last_error_raw = PyStr(got.err),
                                           !.attempts = tried]
                  IN  IF /\ Len(pool) > i
                         /\ should_retry_with_alt_cookie(failed.last_error_raw)
                      THEN ApiLoopAnyIndex(link, pool, ydl, offset, i + 1, failed)
                      ELSE failed

\* Mutant: only the first failure is recorded in last_error_raw.
RECURSIVE ApiLoopFirstError(_, _, _, _, _, _)
ApiLoopFirstError(link, pool, ydl, offset, i, st) ==
    IF i > Len(pool) THEN st
    ELSE LET got   == get_instagram_metadata(link, pool[i], ydl, offset)
             tried == Append(st.attempts, pool[i])
         IN  IF ~got.raised
             THEN [st EXCEPT !.success = TRUE, !.meta = got.meta, !.attempts = tried]
             ELSE LET failed == [st EXCEPT !.last_error_raw =
                                               IF i = 1 THEN PyStr(got.err) ELSE @,
                                           !.attempts = tried]
                  IN  IF /\ i - 1 = 0
                         /\ Len(pool) > 1
                         /\ should_retry_with_alt_cookie(failed.last_error_raw)
                      THEN ApiLoopFirstError(link, pool, ydl, offset, i + 1, failed)
                      ELSE failed

\* The loop `for cookie_idx, cookie_file in enumerate(cookie_pool)` from the
\* entry at position i (cookie_idx = i - 1) on.
RECURSIVE ApiLoop(_, _, _, _, _, _)
ApiLoop(link, pool, ydl, offset, i, st) ==
    IF i > Len(pool) THEN st
    ELSE LET got   == get_instagram_metadata(link, pool[i], ydl, offset)
             tried == Append(st.attempts, pool[i])
         IN  IF ~got.raised
             THEN [st EXCEPT !.success = TRUE, !.meta = got.meta, !.attempts = tried]
             ELSE LET failed == [st EXCEPT !.last_error_raw = PyStr(got.err),
                                           !.attempts = tried]
                  IN  IF /\ i - 1 = 0
                         /\ Len(pool) > 1
                         /\ should_retry_with_alt_cookie(failed.last_error_raw)
                      THEN ApiLoop(link, pool, ydl, offset, i + 1, failed)
                      ELSE failed

\* A JSONResponse, or an exception that leaves the handler (raised # "").
Response(code, json, st) ==
    [done |-> TRUE, raised |-> "", status |-> code, json |-> json,
     attempts |-> st.attempts, success |-> st.success, meta |-> st.meta,
     last_error_raw |-> st.last_error_raw]
Unhandled(exc) ==
    [done |-> TRUE, raised |-> exc, status |-> 0, json |-> ErrorJson(""),
     attempts |-> <<>>, success |-> FALSE, meta |-> NoMeta,
     last_error_raw |-> PyNone]
Idle ==
    [done |-> FALSE, raised |-> "", status |-> 0, json |-> ErrorJson(""),
     attempts |-> <<>>, success |-> FALSE, meta |-> NoMeta,
     last_error_raw |-> PyNone]

\* int(x) if x is not None else ""
IntOrEmpty(x) == IF x.t # "none" THEN PyInt(x.n) ELSE PyStr("")

SuccessJson(meta) ==
    [plays    |-> IntOrEmpty(meta.plays),
     comments |-> IntOrEmpty(meta.comments),
     likes    |-> IntOrEmpty(meta.likes),
     pub_date |-> PyOr(meta.pub_date, PyStr("")),
     pub_time |-> PyOr(meta.pub_time, PyStr("")),
     insta_id |-> PyOr(meta.insta_id, PyStr("")),
     error    |-> PyStr("")]

instagram_metadata(body, pool, ydl, offset) ==
    IF ~body.parsed
    THEN Response(400, ErrorJson("Invalid JSON body."), LoopStart)
    ELSE IF body.top.t # "dict"
    THEN Unhandled("AttributeError")          \* body.get on a non-dict
    ELSE LET value == PyOr(IF body.has_link THEN body.link ELSE PyNone, PyStr(""))
         IN  IF value.t # "str"
             THEN Unhandled("AttributeError")  \* .strip() on a non-str
             ELSE LET link == Strip(value.s)
                  IN  IF link = ""
                      THEN Response(400, ErrorJson("No link provided."), LoopStart)
                      ELSE IF Len(pool) = 0
                      THEN Response(500,
                             ErrorJson("No valid Instagram cookie files found on server."),
                             LoopStart)
                      ELSE LET st == ApiLoop(link, pool, ydl, offset, 1, LoopStart)
                           IN  IF ~st.success
                               THEN Response(200,
                                      ErrorJson(simplify_error_message(st.last_error_raw)),
                                      st)
                               ELSE Response(200, SuccessJson(st.meta), st)

(***************************************************************************)
(* 8. The manual test button                                               *)
(***************************************************************************)
RECURSIVE UiLoop(_, _, _, _, _, _)
UiLoop(url, pool, ydl, offset, i, st) ==
    IF i > Len(pool) THEN st
    ELSE LET got   == get_instagram_metadata(url, pool[i], ydl, offset)
             tried == Append(st.attempts, pool[i])
         IN  IF ~got.raised
             THEN [st EXCEPT !.success = TRUE, !.meta = got.meta, !.attempts = tried]
             ELSE LET failed == [st EXCEPT !.last_error_raw = PyStr(got.err),
                                           !.attempts = tried]
                  IN  IF /\ i - 1 = 0
                         /\ Len(pool) > 1
                         /\ should_retry_with_alt_cookie(failed.last_error_raw)
                      THEN UiLoop(url, pool, ydl, offset, i + 1, failed)
                      ELSE failed

\* What the page shows: st.error(text), or st.success and st.json(meta).
Shown(kind, text, st) ==
    [done |-> TRUE, kind |-> kind, text |-> text, attempts |-> st.attempts,
     success |-> st.success, meta |-> st.meta]
UiIdle ==
    [done |-> FALSE, kind |-> "", text |-> "", attempts |-> <<>>,
     success |-> FALSE, meta |-> NoMeta]

test_fetch(test_url, pool, ydl, offset) ==
    IF Strip(test_url) = ""
    THEN Shown("error", "Please enter an Instagram URL.", LoopStart)
    ELSE LET st == UiLoop(Strip(test_url), pool, ydl, offset, 1, LoopStart)
         IN  IF ~st.success
             THEN Shown("error",
                        "Failed: " \o simplify_error_message(st.last_error_raw), st)
             ELSE Shown("success", "Success!", st)

(***************************************************************************)
(* 1. Provisioning, and 7. the server thread: the script's top level       *)
(***************************************************************************)
\* The names lines 1-9 import into the script's namespace.
Imported ==
    { "os", "threading", "datetime", "st", "FastAPI", "Request",
      "JSONResponse", "uvicorn", "YoutubeDL" }

\* st.secrets.get(secret_key, "")
SecretGet(sec, secret_key) ==
    IF sec[secret_key].t = "none" THEN PyStr("") ELSE sec[secret_key]

\* Returns [raised, ok, files]: the exception that left the function (or ""),
\* the bool it returned, and the cookie files afterwards (path -> content,
\* PyNone when there is no file).
write_cookie_from_secret(sec, fs, secret_key, path) ==
    LET value == SecretGet(sec, secret_key)
    IN  IF ~Truthy(value) \/ Strip(value.s) = ""
        THEN [raised |-> "", ok |-> FALSE, files |-> [fs EXCEPT ![path] = PyNone]]
        ELSE IF "Path" \notin Imported
        THEN [raised |-> "NameError", ok |-> FALSE, files |-> fs]
        ELSE [raised |-> "", ok |-> TRUE, files |-> [fs EXCEPT ![path] = value]]

\* One session's st.session_state: whether the key "api_server_started" is
\* set, and its value.
FreshSession == [has_key |-> FALSE, started |-> FALSE]

\* Lines 259-265 for one session: the session state afterwards and the
\* number of threads started.
start_api_once(ss) ==
    LET ss1 == IF ~ss.has_key THEN [has_key |-> TRUE, started |-> FALSE] ELSE ss
    IN  IF ~ss1.started
        THEN [session |-> [ss1 EXCEPT !.started = TRUE], started |-> 1]
        ELSE [session |-> ss1, started |-> 0]

\* One execution of the script, lines 36-53 and 259-265, for UI session s.
\* Returns what the execution leaves behind.
run_script(sec, fs, ss, pool) ==
    LET main == write_cookie_from_secret(sec, fs, "INSTAGRAM_COOKIE_MAIN", COOKIE_FILE_MAIN)
        alt  == write_cookie_from_secret(sec, main.files, "INSTAGRAM_COOKIE_ALT", COOKIE_FILE_ALT)
        api  == start_api_once(ss)
    IN  IF main.raised # ""
        THEN [outcome |-> main.raised, files |-> main.files, session |-> ss,
              pool |-> pool, started |-> 0]
        ELSE IF alt.raised # ""
        THEN [outcome |-> alt.raised, files |-> alt.files, session |-> ss,
              pool |-> pool, started |-> 0]
        ELSE IF ~main.ok
        THEN [outcome |-> "RuntimeError", files |-> alt.files, session |-> ss,
              pool |-> pool, started |-> 0]
        ELSE [outcome |-> "served", files |-> alt.files, session |-> api.session,
              pool |-> IF alt.ok THEN <<COOKIE_FILE_MAIN, COOKIE_FILE_ALT>>
                                 ELSE <<COOKIE_FILE_MAIN>>,
              started |-> api.started]

(***************************************************************************)
(* Actions                                                                 *)
(***************************************************************************)
CallShouldRetry ==
    /\ ~retry_out.done
    /\ retry_out' = Done(PyBool(should_retry_with_alt_cookie(error_text)))
    /\ UNCHANGED <<error_text, friendly_out, serveVars, startupVars>>

CallSimplify ==
    /\ ~friendly_out.done
    /\ friendly_out' = Done(PyStr(simplify_error_message(error_text)))
    /\ UNCHANGED <<error_text, retry_out, serveVars, startupVars>>

\* POST /instagram-metadata with request.body.
ApiRequest ==
    /\ ~api_out.done
    /\ api_out' = instagram_metadata(request.body, cookie_pool, extract, tz)
    /\ UNCHANGED <<cookie_pool, request, extract, tz, ui_out, textVars, startupVars>>

\* The operator presses "Test fetch" with request.test_url in the text input.
UiTest ==
    /\ ~ui_out.done
    /\ ui_out' = test_fetch(request.test_url, cookie_pool, extract, tz)
    /\ UNCHANGED <<cookie_pool, request, extract, tz, api_out, textVars, startupVars>>

\* A bound on the script executions of one process lifetime, and on the UI
\* sessions opened in it.
MaxRuns     == 3
MaxSessions == 2

Sessions == 1..MaxSessions

\* Streamlit executes the script for session s: its first run or a rerun.
RunScript(s) ==
    /\ Len(runs) < MaxRuns
    /\ LET r == run_script(secrets, files, session_state[s], cookie_pool)
       IN  /\ files' = r.files
           /\ session_state' = [session_state EXCEPT ![s] = r.session]
           /\ cookie_pool' = r.pool
           /\ threads' = threads + r.started
           /\ runs' = Append(runs, [session |-> s, outcome |-> r.outcome])
    /\ UNCHANGED <<secrets, request, extract, tz, api_out, ui_out, textVars>>

(***************************************************************************)
(* Initial states                                                          *)
(***************************************************************************)
UrlReel == "https://www.instagram.com/reel/Cabc123/"

\* The parsed bodies a client may send.
LinkValues ==
    { PyNone, PyStr(""), PyStr(" \t"), PyStr(UrlReel), PyStr(" " \o UrlReel \o "\n"),
      PyInt(0), PyInt(5), PyBool(FALSE), PyBool(TRUE),
      PyList(0), PyList(1), PyDict(0), PyDict(1) }

Bodies ==
    {NotJson}
    \cup { JsonValue(v) : v \in { PyNone, PyInt(5), PyStr(UrlReel), PyBool(TRUE),
                                  PyList(0), PyList(2), PyDict(0), PyDict(1) } }
    \cup { JsonLink(v) : v \in LinkValues }

\* The URL of a body, "" when it has none: what the operator would type.
UrlOf(body) ==
    IF body.parsed /\ body.top.t = "dict" /\ body.has_link /\ body.link.t = "str"
    THEN body.link.s ELSE ""

InfoFull ==
    [view_count |-> PyInt(100), comment_count |-> PyInt(2), like_count |-> PyInt(10),
     timestamp |-> PyInt(1700000000), uploader |-> PyStr("some.handle"),
     uploader_id |-> PyStr("4815162342")]

ServeRaws ==
    { "HTTP Error 400: Bad Request",
      "ERROR: [Instagram] Cabc123: No video formats found",
      "Post is private/restricted",
      "ERROR: [Instagram] Cabc123: Unable to extract data",
      "",
      MsgUnknown }

FetchResults ==
    { Extracted(i) : i \in {InfoFull, NoInfo} } \cup { Raises(r) : r \in ServeRaws }

IdleText ==
    /\ error_text = PyNone
    /\ retry_out = Unset
    /\ friendly_out = Unset

IdleServe ==
    /\ cookie_pool = <<>>
    /\ request = [body |-> NotJson, test_url |-> ""]
    /\ extract = <<>>
    /\ tz = 0
    /\ api_out = Idle
    /\ ui_out = UiIdle

IdleStartup ==
    /\ secrets = [k \in {"INSTAGRAM_COOKIE_MAIN", "INSTAGRAM_COOKIE_ALT"} |-> PyNone]
    /\ files = [f \in {COOKIE_FILE_MAIN, COOKIE_FILE_ALT} |-> PyNone]
    /\ session_state = [s \in Sessions |-> FreshSession]
    /\ threads = 0
    /\ runs = <<>>

\* One request against one pool.  yt-dlp is consulted only for a non-blank
\* link, so only those requests range over what it answers.
Init ==
    /\ cookie_pool \in Pools
    /\ \E body \in Bodies : request = [body |-> body, test_url |-> UrlOf(body)]
    /\ extract \in IF Strip(request.test_url) = ""
                   THEN { [c \in Range(cookie_pool) |-> Raises("")] }
                   ELSE [Range(cookie_pool) -> FetchResults]
    /\ tz = 0
    /\ api_out = Idle
    /\ ui_out = UiIdle
    /\ IdleText
    /\ IdleStartup

Next == ApiRequest \/ UiTest

Spec == Init /\ [][Next]_vars

\* One request that the main cookie answers, over the upstream records.
MaxCount == 2

Counts == {PyNone} \cup { PyInt(k) : k \in 0..MaxCount }

Infos ==
    [view_count : Counts, comment_count : Counts, like_count : Counts,
     timestamp : {PyNone} \cup { PyInt(k) : k \in {0, 1, 86399, 1700000000} },
     uploader : {PyNone, PyStr(""), PyStr("some.handle")},
     uploader_id : {PyNone, PyStr("4815162342")}]

TzOffsets == {-18000, 0, 19800}

InitFetch ==
    /\ cookie_pool = <<COOKIE_FILE_MAIN>>
    /\ request = [body |-> JsonLink(PyStr(UrlReel)), test_url |-> UrlReel]
    /\ \E info \in Infos : extract = [c \in {COOKIE_FILE_MAIN} |-> Extracted(info)]
    /\ tz \in TzOffsets
    /\ api_out = Idle
    /\ ui_out = UiIdle
    /\ IdleText
    /\ IdleStartup

SpecFetch == InitFetch /\ [][Next]_vars

\* The two text helpers on every error text.
InitText ==
    /\ error_text \in ErrorTexts
    /\ retry_out = Unset
    /\ friendly_out = Unset
    /\ IdleServe
    /\ IdleStartup

NextText == CallShouldRetry \/ CallSimplify

SpecText == InitText /\ [][NextText]_vars

\* A process lifetime: the secrets as configured, the cookie files a former
\* process left in /tmp, and the script executed for any session, any number
\* of times.
SecretValues == {PyNone, PyStr(""), PyStr(" \n"), PyStr("sessionid=abc; csrftoken=def")}

InitStartup ==
    /\ secrets \in [{"INSTAGRAM_COOKIE_MAIN", "INSTAGRAM_COOKIE_ALT"} -> SecretValues]
    /\ files \in [{COOKIE_FILE_MAIN, COOKIE_FILE_ALT} -> {PyNone, PyStr("stale")}]
    /\ session_state = [s \in Sessions |-> FreshSession]
    /\ threads = 0
    /\ runs = <<>>
    /\ IdleText
    /\ IdleServe

NextStartup == \E s \in Sessions : RunScript(s)

SpecStartup == InitStartup /\ [][NextStartup]_vars

(***************************************************************************)
(* Properties.  What the specification says is written here on its own     *)
(* terms: a case-insensitive occurrence is a position at which the pattern *)
(* matches letter by letter, and a rule table is a sequence of rows.       *)
(***************************************************************************)
\* p (lower case) occurs in s at some position, letter case ignored.
OccursIn(p, s) ==
    \E i \in 0..(Len(s) - Len(p)) :
        \A k \in 1..Len(p) : LowerChar(SubSeq(s, i + k, i + k)) = SubSeq(p, k, k)

\* The text of an argument: "" for None.
TextOf(v) == IF v.t = "str" THEN v.s ELSE ""

FallbackSubstrings ==
    << "http error 400", "instagram api is not granting access",
       "instagram sent an empty media response", "login session is not accepted",
       "post is private/restricted" >>

FallbackEligible(v) ==
    \E k \in 1..Len(FallbackSubstrings) : OccursIn(FallbackSubstrings[k], TextOf(v))

\* The ordered rule table of the Error Translator, with the message of its
\* fourth row as a parameter.
TranslatorTable(broken) ==
    << [subs |-> {"no video formats found"}, msg |-> MsgNoVideo],
       [subs |-> {"instagram sent an empty media response",
                  "instagram api is not granting access",
                  "http error 400",
                  "login session is not accepted"}, msg |-> MsgPrivate],
       [subs |-> {"unable to extract data"}, msg |-> MsgExtract],
       [subs |-> {"functionality for this site has been marked as broken"},
        msg |-> broken] >>

RowMatches(row, v) == \E p \in row.subs : OccursIn(p, TextOf(v))

FirstMatch(table, v) ==
    IF \E k \in 1..Len(table) : RowMatches(table[k], v)
    THEN LET k == CHOOSE j \in 1..Len(table) :
                    /\ RowMatches(table[j], v)
                    /\ \A h \in 1..(j - 1) : ~RowMatches(table[h], v)
         IN  table[k].msg
    ELSE MsgUnknown

\* C5: should_retry_with_alt_cookie returns true exactly when the error text
\* contains one of the five fallback substrings, letter case ignored; None
\* and "" give false.
C5_RetryIffFallbackSubstring ==
    retry_out.done =>
        /\ retry_out.v = PyBool(FallbackEligible(error_text))
        /\ (TextOf(error_text) = "" => retry_out.v = PyBool(FALSE))
        /\ (OccursIn("http error 400", TextOf(error_text)) => retry_out.v = PyBool(TRUE))

\* C5 witness: a mixed-case "HTTP Error 400" text was judged retry-worthy.
C5_Witness ==
    /\ retry_out.done
    /\ retry_out.v = PyBool(TRUE)
    /\ Contains("HTTP Error 400", TextOf(error_text))
    /\ ~Contains("http error 400", TextOf(error_text))

\* C4 as stated: simplify_error_message returns the message of the first
\* matching row of the specification's table, whose fourth message is
\* "Extractor is currently broken for this URL.", and is never empty.
C4_TableAsStated ==
    friendly_out.done =>
        /\ friendly_out.v.t = "str"
        /\ friendly_out.v.s # ""
        /\ friendly_out.v.s =
             FirstMatch(TranslatorTable("Extractor is currently broken for this URL."),
                        error_text)

\* C4 amended: the same, with the fourth row's message being
\* "yt-dlp Instagram extractor is currently broken for this URL.".
C4_TableAmended ==
    friendly_out.done =>
        /\ friendly_out.v.t = "str"
        /\ friendly_out.v.s # ""
        /\ friendly_out.v.s = FirstMatch(TranslatorTable(MsgBroken), error_text)

\* C4 witness: a text matching the first and the second row was translated
\* by the first.
C4_Witness ==
    /\ friendly_out.done
    /\ OccursIn("no video formats found", TextOf(error_text))
    /\ OccursIn("http error 400", TextOf(error_text))
    /\ friendly_out.v.s = MsgNoVideo

\* C10: every fallback-eligible error text without "no video formats found"
\* is translated to the private/restricted message.
C10_FallbackEligibleIsPrivate ==
    (/\ retry_out.done
     /\ friendly_out.done
     /\ retry_out.v = PyBool(TRUE)
     /\ ~OccursIn("no video formats found", TextOf(error_text)))
        => friendly_out.v.s = MsgPrivate

(***************************************************************************)
(* Properties of one request                                               *)
(***************************************************************************)
\* The request carries a non-blank link.
HasLink == Strip(UrlOf(request.body)) # ""

\* The endpoint has answered a request that reached the credential loop.
Resolved == api_out.done /\ HasLink /\ Len(cookie_pool) >= 1

\* What yt-dlp answers for the pool's k-th entry.
Answer(k) == extract[cookie_pool[k]]

\* The main cookie fails with a fallback-eligible error and there is an
\* alternate to fall back to.
FallsBack ==
    /\ Len(cookie_pool) > 1
    /\ ~Answer(1).ok
    /\ FallbackEligible(PyStr(Answer(1).err))

\* C1: the endpoint attempts pool[0], then pool[1] exactly when the pool has
\* more than one entry and pool[0] failed with a fallback-eligible error, and
\* nothing else.
C1_AttemptsMainThenAlt ==
    Resolved =>
        /\ api_out.attempts =
             IF FallsBack THEN <<cookie_pool[1], cookie_pool[2]>> ELSE <<cookie_pool[1]>>
        /\ \A j, k \in 1..Len(api_out.attempts) :
              j # k => api_out.attempts[j] # api_out.attempts[k]
        /\ \A k \in 3..Len(cookie_pool) : cookie_pool[k] \notin Range(api_out.attempts)

\* C1 witness: a pool of three whose main and alternate both failed with
\* fallback-eligible errors; the third was left alone.
C1_Witness ==
    /\ Resolved
    /\ Len(cookie_pool) >= 3
    /\ FallsBack
    /\ ~Answer(2).ok /\ FallbackEligible(PyStr(Answer(2).err))
    /\ Answer(3).ok
    /\ api_out.attempts = <<cookie_pool[1], cookie_pool[2]>>

SevenFields ==
    {"plays", "comments", "likes", "pub_date", "pub_time", "insta_id", "error"}

MetadataFields == SevenFields \ {"error"}

\* C2: every request gets a seven-field response: 400 "Invalid JSON body."
\* for unparseable JSON; 400 "No link provided." with empty fields for a
\* missing or blank link, a non-object body and a non-string link included;
\* 500 for a valid link and an empty pool; 200 otherwise; no exception.
C2_StatusForEveryBody ==
    api_out.done =>
        /\ api_out.raised = ""
        /\ DOMAIN api_out.json = SevenFields
        /\ IF ~request.body.parsed
           THEN /\ api_out.status = 400
                /\ api_out.json.error = PyStr("Invalid JSON body.")
           ELSE IF ~HasLink
           THEN /\ api_out.status = 400
                /\ api_out.json = ErrorJson("No link provided.")
           ELSE IF Len(cookie_pool) = 0
           THEN api_out.status = 500
           ELSE api_out.status = 200

\* The raw error of the last attempt the specification prescribes: the
\* alternate's when the fallback happened, otherwise the main's.
LastRaw == IF FallsBack THEN Answer(2).err ELSE Answer(1).err

\* Every attempt the specification prescribes fails.
AllFail == ~Answer(1).ok /\ (FallsBack => ~Answer(2).ok)

\* The alternate answers after the main failed.
AltRescues == FallsBack /\ Answer(2).ok

FailureShape ==
    /\ api_out.raised = ""
    /\ api_out.status = 200
    /\ \A f \in MetadataFields : api_out.json[f] = PyStr("")
    /\ api_out.json.error.t = "str"
    /\ api_out.json.error.s # ""
    /\ api_out.json.error.s = simplify_error_message(PyStr(LastRaw))

RescueShape ==
    /\ api_out.status = 200
    /\ api_out.json.error = PyStr("")
    /\ api_out.json = SuccessJson(get_instagram_metadata(
                         UrlOf(request.body), cookie_pool[2], extract, tz).meta)

\* C3 as stated: when every attempt fails the response is 200 with empty
\* metadata and error = simplify_error_message(last raw error), and the raw
\* error text is never itself the error field; when the alternate succeeds
\* the main's error is not in the response.
C3_FailureAsStated ==
    Resolved =>
        /\ AllFail => (FailureShape /\ api_out.json.error.s # LastRaw)
        /\ AltRescues => RescueShape

\* C3 amended: the same, except that the error field is always one of the
\* five fixed messages, and so equals the raw text only when the raw text is
\* itself a fixed message that translates to itself.
C3_FailureAmended ==
    Resolved =>
        /\ AllFail =>
             /\ FailureShape
             /\ api_out.json.error.s \in
                  {MsgNoVideo, MsgPrivate, MsgExtract, MsgBroken, MsgUnknown}
             /\ api_out.json.error.s = LastRaw =>
                  simplify_error_message(PyStr(LastRaw)) = LastRaw
        /\ AltRescues => RescueShape

\* C3 witness: the main failed with HTTP 400, the alternate with another
\* error, and the response carries the translation of the alternate's.
C3_Witness ==
    /\ Resolved
    /\ FallsBack
    /\ AllFail
    /\ Answer(1).err # Answer(2).err
    /\ simplify_error_message(PyStr(Answer(1).err)) = MsgPrivate
    /\ api_out.json.error.s = MsgNoVideo

NoCookiesMessage == "No valid Instagram cookie files found on server."

Present(v) == v.t # "none"

\* C7: on success each upstream count appears as that integer and an absent
\* one as ""; pub_date and pub_time are non-empty exactly when the timestamp
\* is present; insta_id is the uploader, else the uploader id, else "";
\* error is "".
C7_SuccessRoundTrip ==
    (api_out.done /\ Answer(1).ok) =>
        LET info == Answer(1).info
            json == api_out.json
            Count(v) == IF Present(v) THEN PyInt(v.n) ELSE PyStr("")
        IN  /\ api_out.status = 200
            /\ json.plays = Count(info.view_count)
            /\ json.comments = Count(info.comment_count)
            /\ json.likes = Count(info.like_count)
            /\ json.pub_date.t = "str" /\ json.pub_time.t = "str"
            /\ (json.pub_date.s # "") = Present(info.timestamp)
            /\ (json.pub_time.s # "") = Present(info.timestamp)
            /\ json.insta_id =
                 IF Truthy(info.uploader) THEN info.uploader
                 ELSE IF Truthy(info.uploader_id) THEN info.uploader_id
                 ELSE PyStr("")
            /\ json.error = PyStr("")

(***************************************************************************)
(* Properties of startup                                                   *)
(***************************************************************************)
\* A secret is usable when it is set and holds a non-whitespace character.
Usable(v) ==
    /\ v.t = "str"
    /\ \E i \in 1..Len(v.s) : SubSeq(v.s, i, i) \notin Whitespace

MainUsable == Usable(secrets["INSTAGRAM_COOKIE_MAIN"])
AltUsable  == Usable(secrets["INSTAGRAM_COOKIE_ALT"])

LastRun == runs[Len(runs)]

\* C6: the script gets through startup exactly when the main secret is
\* non-blank; then the main cookie file is written, the pool is [main] plus
\* the alternate exactly when its secret is non-blank, and a cookie file
\* exists exactly for the usable slots; otherwise startup fails with the
\* missing-configuration error.
C6_StartupIffMainSecret ==
    Len(runs) >= 1 =>
        /\ (LastRun.outcome = "served") = MainUsable
        /\ MainUsable =>
             /\ files[COOKIE_FILE_MAIN] = secrets["INSTAGRAM_COOKIE_MAIN"]
             /\ cookie_pool = IF AltUsable
                              THEN <<COOKIE_FILE_MAIN, COOKIE_FILE_ALT>>
                              ELSE <<COOKIE_FILE_MAIN>>
             /\ (files[COOKIE_FILE_ALT] # PyNone) = AltUsable
        /\ ~MainUsable => LastRun.outcome = "RuntimeError"

\* C8: once the script has run in a configured process, exactly one run_api
\* thread has been started, whatever runs and sessions follow.
C8_ServerStartedExactlyOnce ==
    (Len(runs) >= 1 /\ MainUsable) => threads = 1

====
